---- MODULE Spec2Model ----
(***************************************************************************)
(* serverless-latest-layer-version: a Serverless plugin that replaces the  *)
(* layer references ending in the marker serverless-latest-layer-version   *)
(* by the ARN of the latest published version of the layer.                *)
(*                                                                         *)
(* A JavaScript string is modelled by the sequence of its colon-separated  *)
(* fields (the result of split(":")), so that the anchored regular         *)
(* expression of the plugin is a test on the fields: "a:b" is <<"a","b">>, *)
(* the empty string is <<"">>.  Every value that can sit in a layers array *)
(* is a record [kind, fields]; only kind "string" carries fields.          *)
(***************************************************************************)
EXTENDS Integers, Sequences, FiniteSets, TLC

VARIABLES
    region,            \* serverless.service.provider.region (read only)
    functions,         \* Object.values(serverless.service.functions)
    resources,         \* Object.values(compiledCloudFormationTemplate.Resources)
    arrays,            \* the heap of layers arrays: array id -> elements
    service,           \* the Lambda service: layer name -> pages of versions
    invocations,       \* number of update() calls made so far
    \* one element per update() call, in the order of the calls:
    hook,              \* the hook that made the call: "sls" or "cfn"
    snapshot,          \* the heap as it was when the call was made
    listing,           \* the service as it was when the call was made
    past,              \* the hooks of the calls that were fulfilled by then
    layerAssociation,  \* Object.entries(layerAssociation) of the call
    tasks,             \* one processLayers call per entry of layerAssociation
    updateState,       \* the promise of the call: "pending", "fulfilled", "rejected"
    error,             \* the reason the call was rejected with
    failures           \* the runs of the call that failed, in order

vars == << region, functions, resources, arrays, service, invocations, hook,
           snapshot, listing, past, layerAssociation, tasks, updateState, error,
           failures >>

----------------------------------------------------------------------------
(* Bounds of the model *)

MaxFunctions == 2
MaxSlots == 2
MaxPages == 2
MaxVersions == 3
MaxInvocations == 2

----------------------------------------------------------------------------
(* Values *)

Str(fields) == [kind |-> "string", fields |-> fields]
NonStr(kind, repr) == [kind |-> kind, fields |-> <<repr>>]

undefined == [kind |-> "undefined", fields |-> <<>>]
null == [kind |-> "null", fields |-> <<>>]

\* typeof layer !== 'string'
IsString(v) == v.kind = "string"

\* !layer : undefined, null, 0, NaN, false and the empty string are falsy
Falsy(v) ==
    \/ v.kind \in {"undefined", "null"}
    \/ v.kind = "number" /\ v.fields \in {<<"0">>, <<"NaN">>}
    \/ v.kind = "boolean" /\ v.fields = <<"false">>
    \/ v.kind = "string" /\ v.fields = <<"">>

LatestMarker == "serverless-latest-layer-version"

\* the pattern without its end: any last field is accepted
regMatchesAnyVersion(s) ==
    /\ Len(s) = 8
    /\ s[1] = "arn" /\ s[2] = "aws" /\ s[3] = "lambda"
    /\ s[4] # ""
    /\ s[5] # ""
    /\ s[6] = "layer"
    /\ s[7] # ""
    /\ s[8] # ""

\* reg.exec(layer) succeeds: the whole string is
\* arn:aws:lambda:<region>:<accountId>:layer:<layerName>:serverless-latest-layer-version
\* with three non-empty colon-free groups
regMatches(s) ==
    /\ Len(s) = 8
    /\ s[1] = "arn" /\ s[2] = "aws" /\ s[3] = "lambda"
    /\ s[4] # ""
    /\ s[5] # ""
    /\ s[6] = "layer"
    /\ s[7] # ""
    /\ s[8] = LatestMarker

\* tokens.groups: the pattern names region, accountId and layerName; it has no
\* layerVersion group, so that destructured variable is undefined
regGroups(s) ==
    [region |-> s[4], accountId |-> s[5], layerName |-> s[7], layerVersion |-> undefined]

\* an extractLayerName that leaves the region placeholder in the name
extractLayerNameRawRegion(layer, ambient) ==
    IF Falsy(layer) \/ ~IsString(layer) THEN undefined
    ELSE IF ~regMatches(layer.fields) THEN undefined
    ELSE LET g == regGroups(layer.fields)
         IN  IF g.accountId = "?"
             THEN Str(<<g.layerName>>)
             ELSE Str(<<"arn", "aws", "lambda", g.region, g.accountId, "layer", g.layerName>>)

extractLayerName(layer, ambient) ==
    IF Falsy(layer) THEN undefined
    ELSE IF ~IsString(layer) THEN undefined
    ELSE IF ~regMatches(layer.fields) THEN undefined
    ELSE LET g == regGroups(layer.fields)
             \* layerVersion === '?' only rewrites the local variable;
             \* layerVersion === parseInt(layerVersion) needs a number on the left
             explicit == g.layerVersion # Str(<<"?">>) /\ g.layerVersion.kind = "number"
             r == IF g.region = "?" THEN ambient ELSE g.region
         IN  IF explicit THEN undefined
             ELSE IF g.accountId = "?"
                  THEN Str(<<g.layerName>>)
                  ELSE Str(<<"arn", "aws", "lambda", r, g.accountId, "layer", g.layerName>>)

----------------------------------------------------------------------------
(* The two configuration trees *)

\* the value of a layers / Properties.Layers field: a reference to an array of
\* the heap, or something that is not an array
ArrayField(id) == [kind |-> "array", ref |-> id]
OtherField(kind) == [kind |-> kind, ref |-> 0]

LambdaFunction == "AWS::Lambda::Function"

\* Object.values(functions).map(({ layers }) => layers)
listSLSLayerAssociations ==
    [i \in 1..Len(functions) |-> functions[i].layers]

\* the Layers of every resource, whatever its Type
listCFNLayersOfAnyType ==
    [i \in 1..Len(resources) |->
        IF resources[i].Properties.present
        THEN resources[i].Properties.Layers
        ELSE OtherField("undefined")]

\* Object.values(Resources).filter(Type === 'AWS::Lambda::Function')
\*     .map(resource => resource.Properties?.Layers)
listCFNLayerAssociations ==
    LET kept == SelectSeq(resources, LAMBDA res : res.Type = LambdaFunction)
    IN  [i \in 1..Len(kept) |->
            IF kept[i].Properties.present
            THEN kept[i].Properties.Layers
            ELSE OtherField("undefined")]

\* a loop over the entries that ends at the first that is not an array
RECURSIVE visitedUntilMalformed(_, _)
visitedUntilMalformed(layersList, heap) ==
    IF layersList = <<>> THEN <<>>
    ELSE LET layers == Head(layersList)
         IN  IF layers.kind # "array" THEN <<>>
             ELSE [k \in 1..Len(heap[layers.ref]) |-> [arr |-> layers.ref, index |-> k]]
                  \o visitedUntilMalformed(Tail(layersList), heap)

\* layers.forEach((layer, index) => ...) over every entry that is an array:
\* the (array, index) pairs in the order update() visits them
RECURSIVE visited(_, _)
visited(layersList, heap) ==
    IF layersList = <<>> THEN <<>>
    ELSE LET layers == Head(layersList)
             here == IF layers.kind # "array" THEN <<>>
                     ELSE [k \in 1..Len(heap[layers.ref]) |->
                              [arr |-> layers.ref, index |-> k]]
         IN  here \o visited(Tail(layersList), heap)

\* the names every object literal inherits from Object.prototype
ObjectPrototypeKeys ==
    { "constructor", "__proto__", "hasOwnProperty", "isPrototypeOf",
      "propertyIsEnumerable", "toLocaleString", "toString", "valueOf",
      "__defineGetter__", "__defineSetter__", "__lookupGetter__",
      "__lookupSetter__" }

Inherited(name) == Len(name.fields) = 1 /\ name.fields[1] \in ObjectPrototypeKeys

\* Object.entries lists the own keys that are array indices before every
\* other key, in ascending numeric order, and the other keys in the order of
\* their insertion.  A key is an array index when it is the canonical decimal
\* spelling of an integer from 0 to 2^32 - 2: digits only, no leading zero.
Digit ==
    ("0" :> 0) @@ ("1" :> 1) @@ ("2" :> 2) @@ ("3" :> 3) @@ ("4" :> 4) @@
    ("5" :> 5) @@ ("6" :> 6) @@ ("7" :> 7) @@ ("8" :> 8) @@ ("9" :> 9)

\* the greatest array index, 2^32 - 2
MaxArrayIndex == "4294967294"

\* the digits of a key made of digits
ArrayIndex(key) == [k \in 1..Len(key) |-> Digit[SubSeq(key, k, k)]]

\* the order of the integers on their canonical digits
indexLess(a, b) ==
    \/ Len(a) < Len(b)
    \/ /\ Len(a) = Len(b)
       /\ \E k \in 1..Len(a) : a[k] < b[k] /\ \A m \in 1..(k - 1) : a[m] = b[m]

IsArrayIndexKey(key) ==
    /\ Len(key) > 0
    /\ \A k \in 1..Len(key) : SubSeq(key, k, k) \in DOMAIN Digit
    /\ Len(key) > 1 => SubSeq(key, 1, 1) # "0"
    /\ ~indexLess(ArrayIndex(MaxArrayIndex), ArrayIndex(key))

\* a qualified name arn:aws:lambda:... holds colons and is no array index
IsArrayIndex(name) == Len(name.fields) = 1 /\ IsArrayIndexKey(name.fields[1])

\* the entries that Object.entries lists before the new own key `name`
keysBefore(entries, name) ==
    IF IsArrayIndex(name)
    THEN Cardinality({ i \in 1..Len(entries) :
                         /\ IsArrayIndex(entries[i].name)
                         /\ indexLess(ArrayIndex(entries[i].name.fields[1]),
                                      ArrayIndex(name.fields[1])) })
    ELSE Len(entries)

\* position of the own key `name` in Object.entries(layerAssociation), or 0
keyIndex(entries, name) ==
    IF \E i \in 1..Len(entries) : entries[i].name = name
    THEN CHOOSE i \in 1..Len(entries) : entries[i].name = name
    ELSE 0

\* the body of the forEach callback for one element: register a listener for
\* (arr, index) under the layer name, or throw when layerAssociation[layerName]
\* is an inherited property, which is truthy and has no push
register(acc, slot, heap, ambient) ==
    LET layerName == extractLayerName(heap[slot.arr][slot.index], ambient)
        at == keyIndex(acc.entries, layerName)
    IN  IF acc.threw THEN acc
        ELSE IF layerName = undefined \/ Falsy(layerName) THEN acc
        ELSE IF at # 0
             THEN [acc EXCEPT !.entries[at].listeners = Append(@, slot)]
        ELSE IF Inherited(layerName)
             THEN [acc EXCEPT !.threw = TRUE]
        ELSE LET before == keysBefore(acc.entries, layerName)
             IN  [acc EXCEPT !.entries =
                     SubSeq(@, 1, before)
                     \o << [name |-> layerName, listeners |-> <<slot>>] >>
                     \o SubSeq(@, before + 1, Len(@))]

RECURSIVE associate(_, _, _, _)
associate(acc, slots, heap, ambient) ==
    IF slots = <<>> THEN acc
    ELSE associate(register(acc, Head(slots), heap, ambient), Tail(slots), heap, ambient)

\* a grouping that is kept from one update() to the next
groupingKept(layersList, heap, ambient) ==
    associate([threw |-> FALSE,
               entries |-> IF layerAssociation = <<>> THEN <<>>
                           ELSE layerAssociation[Len(layerAssociation)]],
              visited(layersList, heap), heap, ambient)

\* lines 35-58 of update(): the grouping of the listeners by layer name
grouping(layersList, heap, ambient) ==
    associate([threw |-> FALSE, entries |-> <<>>], visited(layersList, heap), heap, ambient)

----------------------------------------------------------------------------
(* The paginated query and processLayers *)

\* latestVersion before any record was seen
noVersion == [Version |-> 0, LayerVersionArn |-> undefined]

\* provider.request("Lambda", "listLayerVersions", {LayerName, Marker}): the
\* service holds the pages of every layer it knows and has one empty page for
\* any other name; the marker of page k+1 is k+1, no marker is 0
request(layerName, marker) ==
    LET pages == IF layerName \in DOMAIN service THEN service[layerName] ELSE << <<>> >>
        k == IF marker = 0 THEN 1 ELSE marker
    IN  [LayerVersions |-> pages[k],
         NextMarker |-> IF k < Len(pages) THEN k + 1 ELSE 0]

\* a reduction that replaces the current best only by a strictly greater Version
RECURSIVE reduceStrict(_, _)
reduceStrict(latestVersion, LayerVersions) ==
    IF LayerVersions = <<>> THEN latestVersion
    ELSE LET version == Head(LayerVersions)
         IN  reduceStrict(IF latestVersion # noVersion /\ latestVersion.Version >= version.Version
                          THEN latestVersion
                          ELSE version,
                          Tail(LayerVersions))

\* a reduction with the comparison the other way round: it keeps the lowest
RECURSIVE reduceLowest(_, _)
reduceLowest(latestVersion, LayerVersions) ==
    IF LayerVersions = <<>> THEN latestVersion
    ELSE LET version == Head(LayerVersions)
         IN  reduceLowest(IF latestVersion # noVersion /\ latestVersion.Version < version.Version
                          THEN latestVersion
                          ELSE version,
                          Tail(LayerVersions))

\* for (const version of result.LayerVersions) { ... }
RECURSIVE reduce(_, _)
reduce(latestVersion, LayerVersions) ==
    IF LayerVersions = <<>> THEN latestVersion
    ELSE LET version == Head(LayerVersions)
         IN  reduce(IF latestVersion # noVersion /\ latestVersion.Version > version.Version
                    THEN latestVersion
                    ELSE version,
                    Tail(LayerVersions))

\* a loop that is left after the first listener
notifyFirst(heap, listeners, newLayer) ==
    IF listeners = <<>> THEN heap
    ELSE [heap EXCEPT ![Head(listeners).arr][Head(listeners).index] = newLayer]

\* a loop whose listeners assign nothing
notifyNone(heap, listeners, newLayer) == heap

\* for (const listener of listeners) listener(arn): layers[index] = newLayer
RECURSIVE notify(_, _, _)
notify(heap, listeners, newLayer) ==
    IF listeners = <<>> THEN heap
    ELSE LET l == Head(listeners)
         IN  notify([heap EXCEPT ![l.arr][l.index] = newLayer], Tail(listeners), newLayer)

\* a loop that stops after its first page
continuesNever(marker) == FALSE

\* a loop that asks again whatever the answer says
continuesAlways(marker) == TRUE

\* do { ... } while (marker)
continues(marker) == marker # 0

noError == [origin |-> undefined, text |-> "", layerName |-> undefined]

\* new Error(`Lambda layer ${layerName} has no version available.`)
noVersionError(layerName) ==
    [origin |-> layerName, text |-> "has no version available", layerName |-> layerName]

\* whatever provider.request rejected with; origin records whose call it was
requestError(layerName) ==
    [origin |-> layerName, text |-> "request failed", layerName |-> undefined]

\* TypeError: listeners.push is not a function
pushError == [origin |-> undefined, text |-> "listeners.push is not a function",
              layerName |-> undefined]

\* a rejection reason that every later failure overwrites
reasonLast(ts, failed) ==
    IF failed = <<>> THEN noError ELSE ts[failed[Len(failed)]].thrown

\* Promise.all is rejected with the reason of the first rejection only; failed
\* holds the runs that have thrown, in the order in which they did
reason(ts, failed) ==
    IF failed = <<>> THEN noError ELSE ts[failed[1]].thrown

\* Promise.allSettled in the place of Promise.all: never rejected
settledAlways(ts, failed) ==
    IF \A i \in 1..Len(ts) : ts[i].state # "awaiting" THEN "fulfilled"
    ELSE "pending"

\* Promise.all: rejected by the first rejection, fulfilled once all are
settled(ts, failed) ==
    IF failed # <<>> THEN "rejected"
    ELSE IF \A i \in 1..Len(ts) : ts[i].state = "resolved" THEN "fulfilled"
    ELSE "pending"

\* the hooks of the update() calls that are fulfilled
fulfilledHooks ==
    LET done == { q \in 1..invocations : updateState[q] = "fulfilled" }
    IN  [k \in 1..Cardinality(done) |->
            hook[CHOOSE q \in done : Cardinality({ r \in done : r < q }) = k - 1]]

\* update(layersList) up to its await: the grouping, then one processLayers
\* per entry, each run up to its first provider.request.  A throw in the
\* grouping rejects the promise of the async function before any run starts;
\* update() is then pending on Promise.all, also when there is no run.  The
\* call is taken whatever became of the calls before it: their runs go on.
update(layersList, which) ==
    LET g == grouping(layersList, arrays, region)
        started == [i \in 1..Len(g.entries) |->
                       [state |-> "awaiting", latestVersion |-> noVersion,
                        sent |-> <<0>>, got |-> 0, thrown |-> noError,
                        settledUnder |-> "none"]]
    IN  /\ invocations < MaxInvocations
        /\ invocations' = invocations + 1
        /\ hook' = Append(hook, which)
        /\ snapshot' = Append(snapshot, arrays)
        /\ listing' = Append(listing, service)
        /\ past' = Append(past, fulfilledHooks)
        /\ failures' = Append(failures, <<>>)
        /\ IF g.threw
           THEN /\ layerAssociation' = Append(layerAssociation, <<>>)
                /\ tasks' = Append(tasks, <<>>)
                /\ updateState' = Append(updateState, "rejected")
                /\ error' = Append(error, pushError)
           ELSE /\ layerAssociation' = Append(layerAssociation, g.entries)
                /\ tasks' = Append(tasks, started)
                /\ updateState' = Append(updateState, "pending")
                /\ error' = Append(error, noError)
        /\ UNCHANGED << region, functions, resources, arrays, service >>

updateSLSLayerVersion == update(listSLSLayerAssociations, "sls")

updateCFNLayerVersion == update(listCFNLayerAssociations, "cfn")

\* runs taken one after the other, as a loop awaiting each processLayers would
runnableInTurn(p, i) ==
    /\ tasks[p][i].state = "awaiting"
    /\ \A j \in 1..(i - 1) : tasks[p][j].state # "awaiting"

\* runs that are abandoned once update() is rejected
runnableUntilFailure(p, i) ==
    tasks[p][i].state = "awaiting" /\ updateState[p] # "rejected"

\* a run waits for the answer to its own request and for nothing else
runnable(p, i) == tasks[p][i].state = "awaiting"

\* a processLayers that never throws
hasNoVersionNever(latestVersion) == FALSE

\* if (!latestVersion) throw ... else the listeners are called
hasNoVersion(latestVersion) == latestVersion = noVersion

\* run i of call p: processLayers resumes with the result of its outstanding
\* request; when it throws or returns, its promise is settled and the
\* Promise.all of its call hears of it later
processLayers(p, i) ==
    LET layerName == layerAssociation[p][i].name
        listeners == layerAssociation[p][i].listeners
        result == request(layerName, tasks[p][i].sent[Len(tasks[p][i].sent)])
        latestVersion == reduce(tasks[p][i].latestVersion, result.LayerVersions)
        marker == result.NextMarker
    IN  /\ p \in 1..invocations
        /\ i \in 1..Len(tasks[p])
        /\ runnable(p, i)
        /\ IF continues(marker)
           THEN /\ tasks' = [tasks EXCEPT ![p][i].latestVersion = latestVersion,
                                          ![p][i].got = @ + 1,
                                          ![p][i].sent = Append(@, marker)]
                /\ UNCHANGED << arrays, failures >>
           ELSE IF hasNoVersion(latestVersion)
           THEN /\ tasks' = [tasks EXCEPT ![p][i].state = "rejected",
                                          ![p][i].got = @ + 1,
                                          ![p][i].settledUnder = updateState[p],
                                          ![p][i].thrown = noVersionError(layerName)]
                /\ failures' = [failures EXCEPT ![p] = Append(@, i)]
                /\ UNCHANGED arrays
           ELSE /\ tasks' = [tasks EXCEPT ![p][i].state = "resolved",
                                          ![p][i].got = @ + 1,
                                          ![p][i].settledUnder = updateState[p],
                                          ![p][i].latestVersion = latestVersion]
                /\ arrays' = notify(arrays, listeners, latestVersion.LayerVersionArn)
                /\ UNCHANGED failures
        /\ UNCHANGED << region, functions, resources, service, invocations, hook,
                        snapshot, listing, past, layerAssociation, updateState,
                        error >>

\* the outstanding request of run i of call p rejects: the await throws
requestFails(p, i) ==
    /\ p \in 1..invocations
    /\ i \in 1..Len(tasks[p])
    /\ runnable(p, i)
    /\ tasks' = [tasks EXCEPT ![p][i].state = "rejected",
                              ![p][i].got = @ + 1,
                              ![p][i].settledUnder = updateState[p],
                              ![p][i].thrown = requestError(layerAssociation[p][i].name)]
    /\ failures' = [failures EXCEPT ![p] = Append(@, i)]
    /\ UNCHANGED << region, functions, resources, arrays, service, invocations,
                    hook, snapshot, listing, past, layerAssociation, updateState,
                    error >>

\* await Promise.all(...) of call p: in a microtask after the first run has
\* thrown, or after the last has returned, the call is settled.  Runs whose
\* answers are there already resume before it.
promiseAll(p) ==
    /\ p \in 1..invocations
    /\ updateState[p] = "pending"
    /\ settled(tasks[p], failures[p]) # "pending"
    /\ updateState' = [updateState EXCEPT ![p] = settled(tasks[p], failures[p])]
    /\ error' = [error EXCEPT ![p] = reason(tasks[p], failures[p])]
    /\ UNCHANGED << region, functions, resources, arrays, service, invocations,
                    hook, snapshot, listing, past, layerAssociation, tasks,
                    failures >>

\* the version the service gives a layer when one more is published
RECURSIVE highest(_)
highest(versions) ==
    IF versions = <<>> THEN 0
    ELSE LET rest == highest(Tail(versions))
         IN  IF Head(versions).Version > rest THEN Head(versions).Version ELSE rest

RECURSIVE concat(_)
concat(pages) == IF pages = <<>> THEN <<>> ELSE Head(pages) \o concat(Tail(pages))

newVersion(layerName) ==
    [Version |-> highest(concat(service[layerName])) + 1,
     LayerVersionArn |-> Str(Append(layerName.fields, "new"))]

\* After an update() call, when no request is outstanding, somebody publishes
\* a new version of a layer: the service lists it at the end of the layer's
\* last page.  The service does not change while a request is outstanding.
publish(layerName) ==
    LET pages == service[layerName]
        last == Len(pages)
    IN  /\ invocations \in 1..(MaxInvocations - 1)
        /\ \A p \in 1..invocations :
              /\ updateState[p] # "pending"
              /\ \A i \in 1..Len(tasks[p]) : tasks[p][i].state # "awaiting"
        /\ \A k \in 1..Len(concat(pages)) :
              concat(pages)[k].LayerVersionArn # newVersion(layerName).LayerVersionArn
        /\ service' = [service EXCEPT ![layerName][last] = Append(@, newVersion(layerName))]
        /\ UNCHANGED << region, functions, resources, arrays, invocations, hook,
                        snapshot, listing, past, layerAssociation, tasks,
                        updateState, error, failures >>

Next ==
    \/ updateSLSLayerVersion
    \/ updateCFNLayerVersion
    \/ \E p \in 1..invocations : \E i \in 1..Len(tasks[p]) : processLayers(p, i)
    \/ \E p \in 1..invocations : \E i \in 1..Len(tasks[p]) : requestFails(p, i)
    \/ \E p \in 1..invocations : promiseAll(p)
    \/ \E layerName \in DOMAIN service : publish(layerName)

----------------------------------------------------------------------------
(* Initial states: the configurations and services the runs start from *)

RECURSIVE Sum(_)
Sum(lens) == IF lens = <<>> THEN 0 ELSE Head(lens) + Sum(Tail(lens))

\* flat cut into consecutive pieces of the given lengths
Split(flat, lens) ==
    [i \in 1..Len(lens) |->
        SubSeq(flat, Sum(SubSeq(lens, 1, i - 1)) + 1, Sum(SubSeq(lens, 1, i)))]

LayerRef(r, accountId, layerName, last) ==
    Str(<<"arn", "aws", "lambda", r, accountId, "layer", layerName, last>>)

FooAnyRegion == LayerRef("?", "123", "foo", LatestMarker)
FooUsEast == LayerRef("us-east-1", "123", "foo", LatestMarker)
BarLocal == LayerRef("us-east-1", "?", "bar", LatestMarker)
ConstructorLocal == LayerRef("?", "?", "constructor", LatestMarker)

\* what a layers array holds in the runs of Spec
LayerMenu == {FooAnyRegion, BarLocal, ConstructorLocal, null}

\* what a layers field is when it is not an array
FieldKinds == {"array", "undefined", "null", "object"}

\* the versions a layer can have: two of them carry the same number
VersionMenu ==
    { [Version |-> 1, tag |-> "1"], [Version |-> 2, tag |-> "2"],
      [Version |-> 2, tag |-> "2-bis"] }

\* the service names a version of a layer by the layer's name and a suffix
published(layerName, v) ==
    [Version |-> v.Version, LayerVersionArn |-> Str(Append(layerName.fields, v.tag))]

\* the functions tree holds arrays 1..n; the compiled template holds copies of
\* them (arrays n+1..2n) as Lambda functions, between a resource of another
\* type that has a Layers list (array 2n+1) and a function without Properties
Tree(kinds, contents) ==
    LET n == Len(kinds)
        field(i, id) == IF kinds[i] = "array" THEN ArrayField(id) ELSE OtherField(kinds[i])
    IN  [functions |-> [i \in 1..n |-> [layers |-> field(i, i)]],
         resources |->
             << [Type |-> "AWS::Serverless::Function",
                 Properties |-> [present |-> TRUE, Layers |-> ArrayField(2 * n + 1)]] >>
             \o [i \in 1..n |->
                    [Type |-> LambdaFunction,
                     Properties |-> [present |-> TRUE, Layers |-> field(i, n + i)]]]
             \o << [Type |-> LambdaFunction,
                    Properties |-> [present |-> FALSE, Layers |-> OtherField("undefined")]] >>,
         arrays |-> [id \in 1..(2 * n + 1) |->
                        IF id <= n THEN contents[id]
                        ELSE IF id <= 2 * n THEN contents[id - n]
                        ELSE << FooAnyRegion >>]]

\* the layer names the arrays of the functions can make update() ask for
Queried(contents, ambient) ==
    UNION { { extractLayerName(contents[id][k], ambient) : k \in 1..Len(contents[id]) } :
            id \in DOMAIN contents }
    \ {undefined}

Start(tree, ambient, svc) ==
    /\ region = ambient
    /\ functions = tree.functions
    /\ resources = tree.resources
    /\ arrays = tree.arrays
    /\ service = svc
    /\ invocations = 0
    /\ hook = <<>>
    /\ snapshot = <<>>
    /\ listing = <<>>
    /\ past = <<>>
    /\ layerAssociation = <<>>
    /\ tasks = <<>>
    /\ updateState = <<>>
    /\ error = <<>>
    /\ failures = <<>>

\* the services of Spec and SpecFair: one version, none
TreeServiceMenu ==
    { << << [Version |-> 1, tag |-> "1"] >> >>,
      << << >> >> }

\* the services of SpecPair: one version, none, two pages of one version each
ServiceMenu ==
    { << << [Version |-> 1, tag |-> "1"] >> >>,
      << << >> >>,
      << << [Version |-> 1, tag |-> "1"] >>, << [Version |-> 2, tag |-> "2"] >> >> }

Serve(layerName, pages) ==
    [p \in 1..Len(pages) |->
        [k \in 1..Len(pages[p]) |-> published(layerName, pages[p][k])]]

Init ==
    \E n \in 0..MaxFunctions :
    \E kinds \in [1..n -> FieldKinds] :
    \E lens \in [1..n -> 0..MaxSlots] :
        /\ \A i \in 1..n : kinds[i] # "array" => lens[i] = 0
        \* at most one function of a tree has a layers field that is no array
        /\ \A i, j \in 1..n : (kinds[i] # "array" /\ kinds[j] # "array") => i = j
        /\ Sum(lens) <= MaxSlots
        /\ \E flat \in [1..Sum(lens) -> LayerMenu] :
           LET tree == Tree(kinds, Split(flat, lens))
               names == Queried(Split(flat, lens), "us-east-1")
           IN  \E menu \in [names -> TreeServiceMenu] :
                   Start(tree, "us-east-1", [t \in names |-> Serve(t, menu[t])])

Spec == Init /\ [][Next]_vars

\* The same behaviours under fair delivery: the answer to a request that is
\* outstanding is delivered at last, to each run on its own, and the
\* microtask that settles update() is run.  Whether a request fails stays up
\* to the service.
Delivery ==
    \A p \in 1..MaxInvocations :
        /\ WF_vars(promiseAll(p))
        /\ \A i \in 1..MaxSlots : WF_vars(processLayers(p, i))

\* layers whose names are array indices
TwoLocal == LayerRef("us-east-1", "?", "2", LatestMarker)
TenLocal == LayerRef("us-east-1", "?", "10", LatestMarker)

\* two targets, one of them in both arrays; the names are plain, or one or
\* both are array indices visited after a key that Object.entries lists
\* behind them
FairMenu ==
    { << << FooAnyRegion, BarLocal >>, << BarLocal >> >>,
      << << FooAnyRegion, TwoLocal >>, << TwoLocal >> >>,
      << << TenLocal, TwoLocal >>, << TwoLocal >> >> }

InitFair ==
    \E contents \in FairMenu :
        LET tree == Tree(<< "array", "array" >>, contents)
            names == Queried(contents, "us-east-1")
        IN  \E menu \in [names -> TreeServiceMenu] :
                Start(tree, "us-east-1", [t \in names |-> Serve(t, menu[t])])

SpecFair == InitFair /\ [][Next]_vars /\ Delivery

\* Runs over two targets, served in any way of the wider menu, at most one of
\* them in two pages
InitPair ==
    \E contents \in FairMenu :
        LET tree == Tree(<< "array", "array" >>, contents)
            names == Queried(contents, "us-east-1")
        IN  \E menu \in [names -> ServiceMenu] :
                /\ \A t, u \in names : (Len(menu[t]) = 2 /\ Len(menu[u]) = 2) => t = u
                /\ Start(tree, "us-east-1", [t \in names |-> Serve(t, menu[t])])

SpecPair == InitPair /\ [][Next]_vars

\* Runs of the resolver: one layer, referred to from two arrays in two
\* spellings, and every way of serving at most MaxVersions versions of it in
\* at most MaxPages pages
InitResolver ==
    \E total \in 0..MaxVersions :
    \E versions \in [1..total -> VersionMenu] :
    \E np \in 1..MaxPages :
    \E lens \in [1..np -> 0..total] :
        /\ Sum(lens) = total
        /\ LET contents == << << null, FooAnyRegion >>, << FooUsEast >> >>
               names == Queried(contents, "us-east-1")
           IN  Start(Tree(<< "array", "array" >>, contents), "us-east-1",
                     [t \in names |-> Serve(t, Split(versions, lens))])

SpecResolver == InitResolver /\ [][Next]_vars

RegionMenu == {"?", "us-east-1", "eu-west-1", ""}
AccountMenu == {"?", "123", ""}
NameMenu == {"foo", "constructor", ""}
LastMenu == {LatestMarker, "3", "?", ""}

\* values of other shapes: other strings, and what is not a string
Malformed ==
    { Str(<<"">>), Str(<<"foo">>),
      Str(<<"arn", "aws", "lambda", "us-east-1", "123", "layer", "foo">>),
      Str(<<"arn", "aws", "lambda", "us-east-1", "123", "layer", "foo", LatestMarker, "1">>),
      Str(<<"arn", "aws", "lambda", "us-east-1", "123", "layer", "foo", "1", LatestMarker>>),
      Str(<<"x", "arn", "aws", "lambda", "us-east-1", "123", "layer", "foo", LatestMarker>>),
      Str(<<"ARN", "aws", "lambda", "us-east-1", "123", "layer", "foo", LatestMarker>>),
      Str(<<"arn", "aws-cn", "lambda", "us-east-1", "123", "layer", "foo", LatestMarker>>),
      Str(<<"arn", "aws", "s3", "us-east-1", "123", "layer", "foo", LatestMarker>>),
      Str(<<"arn", "aws", "lambda", "us-east-1", "123", "function", "foo", LatestMarker>>),
      Str(<<"arn", "aws", "lambda", "us-east-1", "123", "layer", "foo", "latest">>),
      undefined, null,
      NonStr("number", "0"), NonStr("number", "7"),
      NonStr("boolean", "false"), NonStr("boolean", "true"),
      NonStr("object", "Ref") }

RawLayers ==
    { LayerRef(r, a, n, l) :
        r \in RegionMenu, a \in AccountMenu, n \in NameMenu, l \in LastMenu }
    \cup Malformed

\* Runs of the matcher: one array holding any raw value next to a reference
\* with an explicit region, under either ambient region
InitMatcher ==
    \E ambient \in {"us-east-1", "eu-west-1"} :
    \E raw \in RawLayers :
        LET contents == << << raw, FooUsEast >> >>
            names == Queried(contents, ambient)
        IN  \E menu \in [names -> { << << [Version |-> 1, tag |-> "1"] >> >> }] :
                Start(Tree(<< "array" >>, contents), ambient,
                      [t \in names |-> Serve(t, menu[t])])

SpecMatcher == InitMatcher /\ [][Next]_vars

----------------------------------------------------------------------------
(* Vocabulary of the properties, stated apart from the code *)

\* the update() calls made so far
Calls == 1..invocations

\* a reference of the shape
\* arn:aws:lambda:<region>:<accountId>:layer:<name>:serverless-latest-layer-version
Eligible(v) ==
    /\ v.kind = "string"
    /\ Len(v.fields) = 8
    /\ SubSeq(v.fields, 1, 3) = <<"arn", "aws", "lambda">>
    /\ v.fields[6] = "layer"
    /\ v.fields[8] = LatestMarker
    /\ \A k \in {4, 5, 7} : v.fields[k] # ""

\* the name under which an eligible reference is looked up
ResolutionTarget(v, ambient) ==
    IF v.fields[5] = "?"
    THEN Str(<< v.fields[7] >>)
    ELSE Str(<< "arn", "aws", "lambda",
                IF v.fields[4] = "?" THEN ambient ELSE v.fields[4],
                v.fields[5], "layer", v.fields[7] >>)

\* the arrays the tree of the hook of call p attaches to its functions
HookArrays(p) ==
    IF hook[p] = "sls"
    THEN { functions[i].layers.ref :
             i \in { j \in 1..Len(functions) : functions[j].layers.kind = "array" } }
    ELSE { resources[i].Properties.Layers.ref :
             i \in { j \in 1..Len(resources) :
                       /\ resources[j].Type = "AWS::Lambda::Function"
                       /\ resources[j].Properties.present
                       /\ resources[j].Properties.Layers.kind = "array" } }

Slots(p) ==
    UNION { { [arr |-> a, index |-> k] : k \in 1..Len(snapshot[p][a]) } :
            a \in HookArrays(p) }

\* what a slot held when call p was made, and what it holds now
Original(p, s) == snapshot[p][s.arr][s.index]
Current(s) == arrays[s.arr][s.index]

EligibleSlots(p) == { s \in Slots(p) : Eligible(Original(p, s)) }
TargetOf(p, s) == ResolutionTarget(Original(p, s), region)
Targets(p) == { TargetOf(p, s) : s \in EligibleSlots(p) }
SlotsOfTarget(p, t) == { s \in EligibleSlots(p) : TargetOf(p, s) = t }

NameOf(p, i) == layerAssociation[p][i].name

\* the slots run i of call p has listeners for
ListenedBy(p, i) ==
    { layerAssociation[p][i].listeners[k] :
        k \in 1..Len(layerAssociation[p][i].listeners) }

\* the processLayers runs of call p that ask for layer t
Runs(p, t) == { i \in 1..Len(tasks[p]) : NameOf(p, i) = t }

\* the pages the service held for layer t when call p was made (it holds
\* them as long as a request of the call is outstanding), and all their
\* records in order
PagesOf(p, t) == IF t \in DOMAIN listing[p] THEN listing[p][t] ELSE << <<>> >>

RECURSIVE Flatten(_)
Flatten(pages) == IF pages = <<>> THEN <<>> ELSE Head(pages) \o Flatten(Tail(pages))

VersionsOf(p, t) == Flatten(PagesOf(p, t))

\* a run that went through all its pages without a failed request
Completed(p, i) ==
    tasks[p][i].state # "awaiting" /\ tasks[p][i].thrown.text # "request failed"

\* the ARNs of the records of layer t that no other record of t outnumbers
BestArns(p, t) ==
    LET V == VersionsOf(p, t)
    IN  { V[k].LayerVersionArn :
            k \in { j \in 1..Len(V) : \A m \in 1..Len(V) : V[j].Version >= V[m].Version } }

\* slot s holds what a run of another update() call has written to it
ByAnotherCall(p, s) ==
    \E q \in Calls \ {p} : \E j \in 1..Len(tasks[q]) :
        /\ tasks[q][j].state = "resolved"
        /\ s \in ListenedBy(q, j)
        /\ Current(s) = tasks[q][j].latestVersion.LayerVersionArn

\* call p has not written slot s: the slot is as the call found it, unless a
\* run of another call has resolved it
Kept(p, s) == Current(s) = Original(p, s) \/ ByAnotherCall(p, s)

\* every step that changes an element of an array is the step in which a run
\* that has a listener for the element returns
WrittenByItsRun ==
    \A a \in DOMAIN arrays : \A k \in 1..Len(arrays[a]) :
        arrays'[a][k] # arrays[a][k] =>
            \E q \in Calls : \E j \in 1..Len(tasks[q]) :
                /\ tasks[q][j].state = "awaiting"
                /\ tasks'[q][j].state = "resolved"
                /\ [arr |-> a, index |-> k] \in ListenedBy(q, j)

\* call p has failed: it is rejected, or a run has thrown and the step of
\* Promise.all that settles the call is due
Failed(p) ==
    \/ updateState[p] = "rejected"
    \/ updateState[p] = "pending" /\ failures[p] # <<>> /\ ENABLED promiseAll(p)

\* call p has succeeded: it is fulfilled, or every run is done, none has
\* thrown and the step of Promise.all is due
Succeeded(p) ==
    \/ updateState[p] = "fulfilled"
    \/ /\ updateState[p] = "pending" /\ failures[p] = <<>> /\ ENABLED promiseAll(p)
       /\ \A i \in 1..Len(tasks[p]) : tasks[p][i].state = "resolved"

\* the step that settles a pending call rejects it with the error of the run
\* that threw first when a run has thrown, and fulfils it otherwise
SettledByPromiseAll ==
    \A p \in Calls :
        (updateState[p] = "pending" /\ updateState'[p] # "pending") =>
            /\ tasks' = tasks /\ failures' = failures /\ arrays' = arrays
            /\ IF failures[p] # <<>>
               THEN /\ updateState'[p] = "rejected"
                    /\ error'[p] = tasks[p][failures[p][1]].thrown
               ELSE /\ updateState'[p] = "fulfilled" /\ error'[p] = noError
                    /\ \A i \in 1..Len(tasks[p]) : tasks[p][i].state = "resolved"

----------------------------------------------------------------------------
(* Properties.  Each is stated of every update() call made so far, whatever
   the calls before and after it are doing. *)

\* C1: once update() has been called, every distinct target of the eligible
\* slots has exactly one processLayers run, which has issued its first query,
\* and there is no run for any other name.
C1_OneRunPerTarget ==
    \A p \in Calls :
        /\ \A t \in Targets(p) :
              /\ Cardinality(Runs(p, t)) = 1
              /\ \A i \in Runs(p, t) : tasks[p][i].sent[1] = 0
        /\ \A i \in 1..Len(tasks[p]) : NameOf(p, i) \in Targets(p)

\* C2: when update() has completed successfully, every eligible slot holds the
\* ARN of a record of its target whose Version is at least that of every record
\* on every page, and the slots of one target all hold the same ARN.
C2_LatestVersionWritten ==
    \A p \in Calls :
        updateState[p] = "fulfilled" =>
            \A s \in EligibleSlots(p) :
                /\ Current(s) \in BestArns(p, TargetOf(p, s))
                /\ \A s2 \in SlotsOfTarget(p, TargetOf(p, s)) : Current(s2) = Current(s)

\* C2 witness: pages [v1, v2] then [v1] were read and both slots hold v2's ARN
C2_Witness ==
    \E p \in Calls :
        /\ updateState[p] = "fulfilled"
        /\ \E t \in Targets(p) :
              LET P == PagesOf(p, t)
              IN  /\ Len(P) = 2 /\ Len(P[1]) = 2 /\ Len(P[2]) = 1
                  /\ P[1][1].Version < P[1][2].Version
                  /\ P[2][1].Version < P[1][2].Version
                  /\ Cardinality(SlotsOfTarget(p, t)) >= 2
                  /\ \A s \in SlotsOfTarget(p, t) : Current(s) = P[1][2].LayerVersionArn

\* C3: when one target's run has resolved and another's has failed, update()
\* has failed (it is rejected, or is so by the step that settles it), every
\* slot of the resolved target holds its resolved ARN and every slot of the
\* failed target holds its original reference, which only a run of another
\* update() call can have replaced.
C3_PartialApplication ==
    /\ [](\A p \in Calls : \A a, b \in 1..Len(tasks[p]) :
            (tasks[p][a].state = "resolved" /\ tasks[p][b].state = "rejected") =>
                /\ Failed(p)
                /\ \A s \in SlotsOfTarget(p, NameOf(p, a)) :
                      /\ Current(s) \in BestArns(p, NameOf(p, a))
                      /\ Current(s) # Original(p, s)
                /\ \A s \in SlotsOfTarget(p, NameOf(p, b)) : Kept(p, s))
    /\ [][SettledByPromiseAll]_vars
    /\ [][WrittenByItsRun]_vars

\* C3 witness: a resolved and a failed run, each with a slot, the slots of
\* the failed one as they were, and update() rejected
C3_Witness ==
    \E p \in Calls : \E a, b \in 1..Len(tasks[p]) :
        /\ tasks[p][a].state = "resolved" /\ tasks[p][b].state = "rejected"
        /\ SlotsOfTarget(p, NameOf(p, a)) # {} /\ SlotsOfTarget(p, NameOf(p, b)) # {}
        /\ \A s \in SlotsOfTarget(p, NameOf(p, a)) : Current(s) # Original(p, s)
        /\ \A s \in SlotsOfTarget(p, NameOf(p, b)) : Current(s) = Original(p, s)
        /\ updateState[p] = "rejected"

\* C4: for a target whose pages hold no record at all, the runs of the call
\* never write a slot of the target, and the run that has read all the pages
\* has failed with the no-version error and so has update().
C4_NoVersionAvailable ==
    /\ [](\A p \in Calls : \A i \in 1..Len(tasks[p]) :
            VersionsOf(p, NameOf(p, i)) = <<>> =>
                /\ \A s \in SlotsOfTarget(p, NameOf(p, i)) : Kept(p, s)
                /\ Completed(p, i) =>
                      /\ tasks[p][i].state = "rejected"
                      /\ tasks[p][i].thrown = noVersionError(NameOf(p, i))
                      /\ Failed(p))
    /\ [][SettledByPromiseAll]_vars
    /\ [][WrittenByItsRun]_vars

\* C4 witness: two empty pages were read for a target that has slots, the
\* slots are as they were and update() is rejected with the no-version error
C4_Witness ==
    \E p \in Calls : \E i \in 1..Len(tasks[p]) :
        /\ VersionsOf(p, NameOf(p, i)) = <<>>
        /\ Len(PagesOf(p, NameOf(p, i))) = 2
        /\ Completed(p, i)
        /\ updateState[p] = "rejected"
        /\ error[p] = noVersionError(NameOf(p, i))
        /\ SlotsOfTarget(p, NameOf(p, i)) # {}
        /\ \A s \in SlotsOfTarget(p, NameOf(p, i)) : Current(s) = Original(p, s)

\* C5: a run never issues more queries than its target has pages, and a run
\* that has read its last page has issued exactly as many.
C5_ExactCallCount ==
    \A p \in Calls : \A i \in 1..Len(tasks[p]) :
        /\ Len(tasks[p][i].sent) <= Len(PagesOf(p, NameOf(p, i)))
        /\ Completed(p, i) => Len(tasks[p][i].sent) = Len(PagesOf(p, NameOf(p, i)))

\* C5 witness: a run over two pages has ended after two queries
C5_Witness ==
    \E p \in Calls : \E i \in 1..Len(tasks[p]) :
        /\ Completed(p, i)
        /\ Len(PagesOf(p, NameOf(p, i))) = 2
        /\ Len(tasks[p][i].sent) = 2

\* the pages a run has received so far, and their records in order
Received(p, i) ==
    IF tasks[p][i].state = "awaiting" \/ tasks[p][i].thrown.text = "request failed"
    THEN Len(tasks[p][i].sent) - 1
    ELSE Len(tasks[p][i].sent)

Seen(p, i) == Flatten(SubSeq(PagesOf(p, NameOf(p, i)), 1, Received(p, i)))

IsBest(V, k) == \A m \in 1..Len(V) : V[k].Version >= V[m].Version

\* among the records of V with the highest Version, the first and the last
FirstBest(V) ==
    V[CHOOSE k \in 1..Len(V) : IsBest(V, k) /\ \A m \in 1..(k - 1) : ~IsBest(V, m)]

LastBest(V) ==
    V[CHOOSE k \in 1..Len(V) : IsBest(V, k) /\ \A m \in (k + 1)..Len(V) : ~IsBest(V, m)]

\* C6 as claimed: among the records with the highest Version the first seen
\* wins, so a resolved target's slots hold the ARN of the first such record.
C6_FirstSeenWins ==
    \A p \in Calls : \A i \in 1..Len(tasks[p]) :
        tasks[p][i].state = "resolved" =>
            \A s \in SlotsOfTarget(p, NameOf(p, i)) :
                Current(s) = FirstBest(VersionsOf(p, NameOf(p, i))).LayerVersionArn

\* C6 as amended: among the records with the highest Version the last seen
\* wins: at every point of a run latestVersion is the last of the records
\* received so far that no received record outnumbers (a later record replaces
\* the current best when its Version is greater or equal), and a resolved
\* target's slots hold the ARN of the last such record of all its pages.
C6_LastSeenWins ==
    \A p \in Calls : \A i \in 1..Len(tasks[p]) :
        /\ tasks[p][i].latestVersion =
              IF Seen(p, i) = <<>> THEN noVersion ELSE LastBest(Seen(p, i))
        /\ tasks[p][i].state = "resolved" =>
              \A s \in SlotsOfTarget(p, NameOf(p, i)) :
                  Current(s) = LastBest(VersionsOf(p, NameOf(p, i))).LayerVersionArn

\* C6 witness: two records with the highest Version and different ARNs were
\* received and the slots hold the ARN of the later one
C6_Witness ==
    \E p \in Calls : \E i \in 1..Len(tasks[p]) :
        LET V == VersionsOf(p, NameOf(p, i))
        IN  /\ tasks[p][i].state = "resolved"
            /\ FirstBest(V) # LastBest(V)
            /\ SlotsOfTarget(p, NameOf(p, i)) # {}
            /\ \A s \in SlotsOfTarget(p, NameOf(p, i)) :
                  Current(s) = LastBest(V).LayerVersionArn

\* C7: an element that is not an eligible reference yields no layer name, no
\* run exists but for the targets of eligible slots, the element keeps its
\* original value whatever becomes of update(), and no array changes length.
C7_NotEligibleUntouched ==
    \A p \in Calls :
        /\ \A a \in DOMAIN arrays : Len(arrays[a]) = Len(snapshot[p][a])
        /\ \A s \in Slots(p) :
              ~Eligible(Original(p, s)) =>
                  /\ extractLayerName(Original(p, s), region) = undefined
                  /\ Current(s) = Original(p, s)
        /\ \A i \in 1..Len(tasks[p]) : NameOf(p, i) \in Targets(p)

\* C7 witness: update() is over, a reference with the explicit version 3 still
\* stands beside a slot that was rewritten
C7_Witness ==
    \E p \in Calls :
        /\ updateState[p] \in {"fulfilled", "rejected"}
        /\ \E s, s2 \in Slots(p) :
              /\ Original(p, s) = LayerRef("us-east-1", "123", "foo", "3")
              /\ Current(s) = Original(p, s)
              /\ s2.arr = s.arr
              /\ Current(s2) # Original(p, s2)

\* C8: extractLayerName maps an eligible reference to the bare layer name when
\* its accountId is ?, and otherwise to arn:aws:lambda:R:accountId:layer:name
\* with R the ambient region when its region is ?; every listener of a run
\* belongs to an eligible slot with exactly the run's name and no two runs of
\* a call have the same name, so two slots are served by the same run exactly
\* when their names are equal.
C8_Canonicalization ==
    \A p \in Calls :
        /\ \A a \in DOMAIN snapshot[p] : \A k \in 1..Len(snapshot[p][a]) :
              Eligible(snapshot[p][a][k]) =>
                  extractLayerName(snapshot[p][a][k], region)
                      = ResolutionTarget(snapshot[p][a][k], region)
        /\ \A i \in 1..Len(layerAssociation[p]) :
              \A l \in ListenedBy(p, i) :
                  /\ l \in EligibleSlots(p)
                  /\ NameOf(p, i) = TargetOf(p, l)
        /\ \A i, j \in 1..Len(layerAssociation[p]) :
              NameOf(p, i) = NameOf(p, j) => i = j

\* C8 witness: under the ambient region us-east-1 a reference with region ?
\* and one with region us-east-1 share one run
C8_Witness ==
    /\ region = "us-east-1"
    /\ \E p \in Calls : \E i \in 1..Len(layerAssociation[p]) :
          /\ Len(layerAssociation[p][i].listeners) = 2
          /\ Original(p, layerAssociation[p][i].listeners[1]).fields[4] = "?"
          /\ Original(p, layerAssociation[p][i].listeners[2]).fields[4] = "us-east-1"
          /\ tasks[p][i].state = "resolved"

\* C9: an update() whose tree has no eligible slot succeeds (it is fulfilled,
\* or is so by the step that settles it), has started no run and leaves its
\* tree as it was; whatever is written to any array is written by a run, and
\* it has none.
C9_NothingToResolve ==
    /\ [](\A p \in Calls :
            EligibleSlots(p) = {} =>
                /\ Succeeded(p)
                /\ error[p] = noError
                /\ tasks[p] = <<>>
                /\ \A s \in Slots(p) : Current(s) = Original(p, s))
    /\ [][SettledByPromiseAll]_vars
    /\ [][WrittenByItsRun]_vars

\* C9 witness: update() over a compiled template whose functions hold only
\* elements that are not eligible
C9_Witness ==
    \E p \in Calls :
        /\ hook[p] = "cfn"
        /\ Slots(p) # {}
        /\ EligibleSlots(p) = {}
        /\ updateState[p] = "fulfilled"

\* C10 as claimed: when a query of a run has failed, update() is rejected with
\* the error of that query and no slot of the target is written.
C10_FailsWithThatError ==
    \A p \in Calls : \A i \in 1..Len(tasks[p]) :
        tasks[p][i].thrown = requestError(NameOf(p, i)) =>
            /\ Failed(p)
            /\ updateState[p] = "rejected" => error[p] = requestError(NameOf(p, i))
            /\ \A s \in SlotsOfTarget(p, NameOf(p, i)) : Kept(p, s)

\* in a run whose query failed nothing changes any more
NoRetry ==
    \A p \in Calls : \A i \in 1..Len(tasks[p]) :
        tasks[p][i].thrown.text = "request failed" =>
            /\ tasks'[p][i] = tasks[p][i]
            /\ layerAssociation'[p] = layerAssociation[p]

\* C10 as amended: when a query of a run has failed, the run issues no further
\* query, the runs of the call write no slot of the target and update() is
\* rejected: with the error of that query when the run was the first of the
\* update() to fail, and with the error of the run that failed first otherwise.
C10_TransportFailureFatal ==
    /\ [](\A p \in Calls : \A i \in 1..Len(tasks[p]) :
            tasks[p][i].thrown = requestError(NameOf(p, i)) =>
                /\ tasks[p][i].state = "rejected"
                /\ Failed(p)
                /\ updateState[p] = "rejected" =>
                      /\ error[p] = tasks[p][failures[p][1]].thrown
                      /\ failures[p][1] = i => error[p] = requestError(NameOf(p, i))
                /\ \A s \in SlotsOfTarget(p, NameOf(p, i)) : Kept(p, s))
    /\ [][NoRetry]_vars
    /\ [][SettledByPromiseAll]_vars
    /\ [][WrittenByItsRun]_vars

\* C10 witness: the query for the second page failed after a first page with
\* a version, the slots are as they were and update() has that error
C10_Witness ==
    \E p \in Calls : \E i \in 1..Len(tasks[p]) :
        /\ tasks[p][i].thrown = requestError(NameOf(p, i))
        /\ Len(tasks[p][i].sent) = 2
        /\ tasks[p][i].latestVersion # noVersion
        /\ SlotsOfTarget(p, NameOf(p, i)) # {}
        /\ \A s \in SlotsOfTarget(p, NameOf(p, i)) : Current(s) = Original(p, s)
        /\ error[p] = requestError(NameOf(p, i))

\* ---------------------------------------------------------------------------
\* C11

\* once a call is rejected it stays rejected with the same error
OneError ==
    \A p \in Calls :
        updateState[p] = "rejected" =>
            updateState'[p] = "rejected" /\ error'[p] = error[p]

\* the step that rejects a call gives it the error of the run that threw
\* first, and is no step of a run
RejectedByFirstFailure ==
    \A p \in Calls :
        (updateState[p] = "pending" /\ updateState'[p] = "rejected") =>
            /\ failures[p] # <<>>
            /\ failures' = failures /\ tasks' = tasks
            /\ error'[p] = tasks[p][failures[p][1]].thrown

\* C11: when runs of an update() fail, update() is rejected with the error of
\* the run that failed first, however many fail after it, and an update() has
\* an error exactly when it is rejected and never changes it: one error per
\* invocation.
C11_FirstFailureReported ==
    /\ [](\A p \in Calls :
            /\ failures[p] # <<>> => Failed(p)
            /\ (failures[p] # <<>> /\ updateState[p] = "rejected") =>
                  (error[p] = tasks[p][failures[p][1]].thrown /\ error[p] # noError)
            /\ \A i \in 1..Len(tasks[p]) :
                  tasks[p][i].state = "rejected" <=>
                      \E k \in 1..Len(failures[p]) : failures[p][k] = i
            /\ error[p] # noError <=> updateState[p] = "rejected")
    /\ [][OneError]_vars
    /\ [][RejectedByFirstFailure]_vars

\* C11 witness: two runs have failed with different errors and update() has
\* the error of the first
C11_Witness ==
    \E p \in Calls :
        /\ Len(failures[p]) = 2
        /\ tasks[p][failures[p][1]].thrown # tasks[p][failures[p][2]].thrown
        /\ tasks[p][failures[p][1]].thrown.text = "has no version available"
        /\ tasks[p][failures[p][2]].thrown.text = "request failed"
        /\ updateState[p] = "rejected"
        /\ error[p] = tasks[p][failures[p][1]].thrown

\* ---------------------------------------------------------------------------
\* C12

\* C12: from the state update() leaves behind, every run has issued its query
\* for the first page, without a marker, so no answer is consumed before all
\* the first queries are out; and a run that awaits an answer can consume it
\* in every reachable state, whatever the other runs are doing: awaiting
\* their first answer, failed, or done.
C12_RunsIndependent ==
    \A p \in Calls : \A i \in 1..Len(tasks[p]) :
        /\ Len(tasks[p][i].sent) >= 1
        /\ tasks[p][i].sent[1] = 0
        /\ tasks[p][i].got > 0 => \A j \in 1..Len(tasks[p]) : Len(tasks[p][j].sent) >= 1
        /\ tasks[p][i].state = "awaiting" => ENABLED processLayers(p, i)

\* C12 witness: the run of the second target is done and all its slots hold
\* the version, while the first query of the first target, issued earlier, has
\* had no answer
C12_Witness ==
    \E p \in Calls :
        /\ Len(tasks[p]) = 2
        /\ tasks[p][1].state = "awaiting"
        /\ tasks[p][1].got = 0 /\ tasks[p][1].sent = <<0>>
        /\ tasks[p][2].state = "resolved"
        /\ SlotsOfTarget(p, NameOf(p, 2)) # {}
        /\ \A s \in SlotsOfTarget(p, NameOf(p, 2)) :
              /\ Current(s) = tasks[p][2].latestVersion.LayerVersionArn
              /\ Current(s) # Original(p, s)
        /\ \A s \in SlotsOfTarget(p, NameOf(p, 1)) : Current(s) = Original(p, s)

\* ---------------------------------------------------------------------------
\* C13

\* C13: nothing is carried from one update() to the next.  The groups of an
\* update() hold slots of the tree of its own hook only, each eligible when it
\* started; each of its runs starts its own query sequence at the first page
\* with no version in hand; and a run that is done has asked for every page
\* the service had for the call and its slots hold the latest version the
\* service had for the call, whatever another update() found and wrote for
\* the same target.
C13_NothingCarriedOver ==
    \A p \in Calls :
        /\ Len(tasks[p]) = Len(layerAssociation[p])
        /\ \A i \in 1..Len(tasks[p]) :
              /\ \A l \in ListenedBy(p, i) :
                    l \in EligibleSlots(p) /\ TargetOf(p, l) = NameOf(p, i)
              /\ tasks[p][i].sent[1] = 0
              /\ tasks[p][i].got = 0 => tasks[p][i].latestVersion = noVersion
              /\ tasks[p][i].state = "resolved" =>
                    /\ tasks[p][i].got = Len(PagesOf(p, NameOf(p, i)))
                    /\ tasks[p][i].latestVersion = LastBest(VersionsOf(p, NameOf(p, i)))
                    /\ \A s \in SlotsOfTarget(p, NameOf(p, i)) :
                          Current(s) = LastBest(VersionsOf(p, NameOf(p, i))).LayerVersionArn

\* C13 witness: the second update() has resolved a target to the version that
\* was published after the first update() was fulfilled, and a slot of the
\* other tree still holds the version the first update() wrote for the same
\* target
C13_Witness ==
    /\ invocations >= 2
    /\ Len(past[2]) = 1
    /\ \E i \in 1..Len(tasks[2]) :
          /\ tasks[2][i].state = "resolved"
          /\ tasks[2][i].latestVersion.LayerVersionArn =
                newVersion(NameOf(2, i)).LayerVersionArn
          /\ SlotsOfTarget(2, NameOf(2, i)) # {}
          /\ \A s \in SlotsOfTarget(2, NameOf(2, i)) :
                Current(s) = tasks[2][i].latestVersion.LayerVersionArn
          /\ \E j \in Runs(1, NameOf(2, i)) : \E s \in ListenedBy(1, j) :
                /\ Current(s) = tasks[1][j].latestVersion.LayerVersionArn
                /\ Current(s) # tasks[2][i].latestVersion.LayerVersionArn

\* ---------------------------------------------------------------------------
\* C14

\* C14: when an update() is rejected because runs failed, for lack of a version
\* or on a query, its error names the target of the run it comes from, the
\* first that failed.
C14_ErrorNamesTarget ==
    \A p \in Calls :
        (updateState[p] = "rejected" /\ failures[p] # <<>>) =>
            error[p].layerName = NameOf(p, failures[p][1])

\* ---------------------------------------------------------------------------
\* C15

\* the layers fields of the tree of the hook of call p
HookFields(p) ==
    IF hook[p] = "sls" THEN listSLSLayerAssociations ELSE listCFNLayerAssociations

IsArrayField(layers) == layers.kind = "array"

\* no step changes an entry of either tree
EntriesUnchanged == functions' = functions /\ resources' = resources

\* C15: an entry whose layers field is absent, null or not an array gives no
\* slot to any group, raises no error (the only error of the grouping comes
\* from an eligible element of an array), changes nothing for the other
\* entries (the groups, and whether the grouping throws, are what they would
\* be without those entries) and is never changed itself.
C15_MalformedEntriesSkipped ==
    /\ [](\A p \in Calls :
            LET without ==
                    grouping(SelectSeq(HookFields(p), IsArrayField), snapshot[p], region)
            IN  /\ \A i \in 1..Len(layerAssociation[p]) :
                      \A l \in ListenedBy(p, i) : l.arr \in HookArrays(p)
                /\ error[p] = pushError =>
                      \E s \in EligibleSlots(p) : Inherited(TargetOf(p, s))
                /\ without.threw <=> error[p] = pushError
                /\ ~without.threw => layerAssociation[p] = without.entries
                /\ \A i \in 1..Len(tasks[p]) : tasks[p][i].state = "resolved" =>
                      \A s \in SlotsOfTarget(p, NameOf(p, i)) :
                          Current(s) # Original(p, s))
    /\ [][EntriesUnchanged]_vars

\* C15 witness: the first function has null for layers, the second an array
\* with an eligible element, and update() is fulfilled with that element
\* rewritten
C15_Witness ==
    \E p \in Calls :
        /\ hook[p] = "sls"
        /\ Len(functions) = 2
        /\ functions[1].layers.kind = "null"
        /\ functions[2].layers.kind = "array"
        /\ updateState[p] = "fulfilled"
        /\ \E s \in EligibleSlots(p) :
              /\ s.arr = functions[2].layers.ref
              /\ Current(s) # Original(p, s)
              /\ Current(s) \in BestArns(p, TargetOf(p, s))

\* ---------------------------------------------------------------------------
\* C16

\* a run issues a query only in the step in which the previous one is answered
OneQueryAtATime ==
    \A p \in Calls : \A i \in 1..Len(tasks[p]) :
        /\ Len(tasks'[p][i].sent) \in {Len(tasks[p][i].sent), Len(tasks[p][i].sent) + 1}
        /\ Len(tasks'[p][i].sent) > Len(tasks[p][i].sent) =>
              /\ tasks[p][i].got = Len(tasks[p][i].sent) - 1
              /\ tasks'[p][i].got = Len(tasks[p][i].sent)
        /\ SubSeq(tasks'[p][i].sent, 1, Len(tasks[p][i].sent)) = tasks[p][i].sent

\* C16: the queries of a run form a chain.  The first carries no marker; each
\* later one carries the marker the answer before it gave, which is a marker
\* and not the end of the list; a query is issued only when the one before it
\* has been answered, so a run has one query without an answer while it
\* awaits and none otherwise.
C16_MarkerChain ==
    /\ [](\A p \in Calls : \A i \in 1..Len(tasks[p]) :
            /\ tasks[p][i].sent[1] = 0
            /\ \A k \in 1..(Len(tasks[p][i].sent) - 1) :
                  /\ tasks[p][i].sent[k + 1] =
                        request(NameOf(p, i), tasks[p][i].sent[k]).NextMarker
                  /\ tasks[p][i].sent[k + 1] # 0
            /\ Len(tasks[p][i].sent) - tasks[p][i].got \in {0, 1}
            /\ tasks[p][i].state = "awaiting" <=>
                  Len(tasks[p][i].sent) - tasks[p][i].got = 1)
    /\ [][OneQueryAtATime]_vars

\* C16 witness: a run over two pages is done; its second query carried the
\* marker of the first answer and both were answered
C16_Witness ==
    \E p \in Calls : \E i \in 1..Len(tasks[p]) :
        /\ tasks[p][i].state = "resolved"
        /\ Len(PagesOf(p, NameOf(p, i))) = 2
        /\ tasks[p][i].sent = << 0, request(NameOf(p, i), 0).NextMarker >>
        /\ request(NameOf(p, i), 0).NextMarker # 0
        /\ tasks[p][i].got = 2

\* ---------------------------------------------------------------------------
\* C17

\* the places (run, position) where call p has slot s registered as a listener
Registrations(p, s) ==
    { r \in UNION { { <<i, k>> : k \in 1..Len(layerAssociation[p][i].listeners) } :
                      i \in 1..Len(layerAssociation[p]) } :
        layerAssociation[p][r[1]].listeners[r[2]] = s }

\* C17: while an update() is under way or over, every eligible slot of the
\* tree is registered exactly once, in the group of exactly one run, the one
\* named by extractLayerName of the slot's original value; and when update()
\* is fulfilled every eligible slot has been written.
C17_SlotOwnership ==
    \A p \in Calls :
        /\ \A s \in EligibleSlots(p) :
              /\ Cardinality(Registrations(p, s)) = 1
              /\ \A r \in Registrations(p, s) :
                    NameOf(p, r[1]) = extractLayerName(Original(p, s), region)
        /\ updateState[p] = "fulfilled" =>
              \A s \in EligibleSlots(p) :
                  Current(s) # Original(p, s) /\ Current(s) \in BestArns(p, TargetOf(p, s))

\* ---------------------------------------------------------------------------
\* C18

\* a step that writes one slot of a target writes them all
WrittenTogether ==
    \A p \in Calls : \A t \in Targets(p) :
        (\E s \in SlotsOfTarget(p, t) : arrays'[s.arr][s.index] # Current(s)) =>
            /\ \A s \in SlotsOfTarget(p, t) : Current(s) = Original(p, s)
            /\ \A s \in SlotsOfTarget(p, t) : arrays'[s.arr][s.index] # Original(p, s)
            /\ \A u \in Targets(p) \ {t} : \A s \in SlotsOfTarget(p, u) :
                  arrays'[s.arr][s.index] = Current(s)

\* C18: in every state the slots of a target are all as update() found them
\* or all hold one and the same ARN, and they are written only by a run for
\* the target (of this call or of another one over the same tree) that is
\* done, has had every page, and whose last answer carried no marker.
C18_AllOrNothing ==
    /\ [](\A p \in Calls : \A t \in Targets(p) :
            \/ \A s \in SlotsOfTarget(p, t) : Current(s) = Original(p, s)
            \/ \E q \in Calls : \E i \in Runs(q, t) :
                  /\ hook[q] = hook[p]
                  /\ tasks[q][i].state = "resolved"
                  /\ tasks[q][i].got = Len(PagesOf(q, t))
                  /\ request(t, tasks[q][i].sent[Len(tasks[q][i].sent)]).NextMarker = 0
                  /\ \A s \in SlotsOfTarget(p, t) :
                        /\ Current(s) = tasks[q][i].latestVersion.LayerVersionArn
                        /\ Current(s) # Original(p, s))
    /\ [][WrittenTogether]_vars

\* C18 witness: a target with slots in two different arrays, served over two
\* pages, is resolved and all its slots hold the same ARN
C18_Witness ==
    \E p \in Calls : \E t \in Targets(p) :
        /\ Cardinality(SlotsOfTarget(p, t)) >= 2
        /\ Len(PagesOf(p, t)) = 2
        /\ \E i \in Runs(p, t) :
              /\ tasks[p][i].state = "resolved"
              /\ \A s \in SlotsOfTarget(p, t) :
                    Current(s) = tasks[p][i].latestVersion.LayerVersionArn
        /\ \E s1, s2 \in SlotsOfTarget(p, t) : s1.arr # s2.arr

\* ---------------------------------------------------------------------------
\* C19

\* run i of call p has every slot of its target rewritten to a latest version
\* of the target
Rewritten(p, i) ==
    /\ p \in Calls
    /\ i \in 1..Len(tasks[p])
    /\ tasks[p][i].state = "resolved"
    /\ \A s \in SlotsOfTarget(p, NameOf(p, i)) :
          Current(s) # Original(p, s) /\ Current(s) \in BestArns(p, NameOf(p, i))

\* the request of run i of call p has failed
RequestFailed(p, i) ==
    p \in Calls /\ i \in 1..Len(tasks[p]) /\ tasks[p][i].thrown.text = "request failed"

\* run i of call p awaits an answer, for a target the service has a version of
InFlight(p, i) ==
    /\ p \in Calls
    /\ i \in 1..Len(tasks[p])
    /\ tasks[p][i].state = "awaiting"
    /\ VersionsOf(p, NameOf(p, i)) # <<>>

\* C19: under fair delivery a run that awaits an answer, for a target the
\* service has a version of, goes on to rewrite every slot of its target
\* unless one of its own requests fails; that update() is or becomes
\* rejected on behalf of another target does not stop it.
C19_FailureCancelsNothing ==
    \A p \in 1..MaxInvocations : \A i \in 1..MaxSlots :
        InFlight(p, i) ~> (Rewritten(p, i) \/ RequestFailed(p, i))

\* C19 witness: the first target has failed and update() was rejected; the
\* run of the second target ended after that and its slots are rewritten
C19_Witness ==
    \E p \in Calls :
        /\ Len(tasks[p]) = 2
        /\ updateState[p] = "rejected"
        /\ tasks[p][1].state = "rejected"
        /\ tasks[p][2].settledUnder = "rejected"
        /\ SlotsOfTarget(p, NameOf(p, 2)) # {}
        /\ Rewritten(p, 2)
        /\ \A s \in SlotsOfTarget(p, NameOf(p, 1)) : Current(s) = Original(p, s)

\* ---------------------------------------------------------------------------
\* C20

\* the tree of the hook of call p went through an earlier update() that was
\* fulfilled when call p was made
UpdatedBefore(p) == \E k \in 1..Len(past[p]) : past[p][k] = hook[p]

\* no ARN the service gives out is itself a placeholder
NoArnIsPlaceholder ==
    \A t \in DOMAIN service : \A j \in 1..Len(Flatten(service[t])) :
        ~Eligible(Flatten(service[t])[j].LayerVersionArn)

\* C20: an update() over a tree that an earlier, fulfilled update() has
\* rewritten finds no eligible slot, starts no run and so issues no query,
\* succeeds (it is fulfilled, or is so by the step that settles it) and leaves
\* every slot of the tree as it found it, provided the ARNs of the service
\* are not placeholders themselves.
C20_SecondUpdateIsNoOp ==
    \A p \in Calls :
        (UpdatedBefore(p) /\ NoArnIsPlaceholder) =>
            /\ EligibleSlots(p) = {}
            /\ layerAssociation[p] = <<>>
            /\ tasks[p] = <<>>
            /\ Succeeded(p)
            /\ error[p] = noError
            /\ \A s \in Slots(p) : Current(s) = Original(p, s)

\* C20 witness: the second update() of the same hook is over; the tree holds
\* an ARN the first one wrote, and nothing was asked
C20_Witness ==
    \E p \in Calls :
        /\ UpdatedBefore(p)
        /\ updateState[p] = "fulfilled"
        /\ tasks[p] = <<>>
        /\ \E s \in Slots(p) : \E t \in DOMAIN service :
              \E j \in 1..Len(Flatten(service[t])) :
                  /\ Current(s) = Flatten(service[t])[j].LayerVersionArn
                  /\ Original(p, s) = Current(s)

====
